---- MODULE Spec2Model ----
(***************************************************************************)
(* State-machine model of src/webhook.js.  The file holds three variants   *)
(* of one webhook service.  The primary handler (lines 1-230) is modelled  *)
(* in full: the fulfillments table, the upsert statement,                  *)
(* provisionAndWelcome, the POST /webhook handler and GET /api/health.     *)
(* In Spec one action handles one whole request; AsyncSpec splits the      *)
(* handler at its awaits, with two requests in flight.  The second (lines  *)
(* 247-385) and third (lines 433-543) variants have their own handlers     *)
(* and specifications, Spec2 and Spec3.                                    *)
(*                                                                         *)
(* SQLite semantics modelled for the upsert statement (lines 45-68):       *)
(*   - both session-id columns are UNIQUE; NULLs never collide;            *)
(*   - ON CONFLICT(checkout_session_id) DO UPDATE handles a collision on   *)
(*     checkout_session_id only; a collision on verification_session_id    *)
(*     (by the INSERT, or by the UPDATE it turns into) aborts the          *)
(*     statement with SQLITE_CONSTRAINT and leaves the table unchanged.    *)
(* Only the errors the statement itself produces are modelled; I/O errors  *)
(* of the database file are not.                                           *)
(*                                                                         *)
(* Spec is the handler under any traffic: first deliveries (at most        *)
(* MaxDeliveries of them) and redeliveries of an event answered 500.       *)
(* FairSpec adds that such redeliveries keep coming; HealthSpec adds       *)
(* requests to the health endpoint.                                        *)
(***************************************************************************)
EXTENDS Naturals, FiniteSets, Sequences, TLC

VARIABLES
    fulfillments,   \* the rows of table fulfillments
    deliveries,     \* number of first-time deliveries made so far
    last,           \* the request handled last: its inputs, its effects, its response
    health,         \* the response to the GET /api/health handled last
    reqs            \* the webhook requests in flight, one per slot

vars == <<fulfillments, deliveries, last, health, reqs>>

(* ------------------------------- bounds -------------------------------- *)
MaxDeliveries == 3
MaxArrivals == 2

(* ------------------------------- values -------------------------------- *)
NULL == "<null>"

CheckoutIds == {"cs_1", "cs_2"}
VerifIds == {"vs_1"}
PaymentStatuses == {"paid", "unpaid"}
Signatures == {"valid", "invalid", "missing"}
RelayOutcomes == {"ok", "rejected", "timeout"}
MailOutcomes == {"ok", "failed"}

T_CHECKOUT == "checkout.session.completed"
T_VERIFIED == "identity.verification_session.verified"
T_REQUIRES_INPUT == "identity.verification_session.requires_input"
T_OTHER == "payment_intent.succeeded"

\* JavaScript a || b on strings and null: the empty string and null are falsy.
Truthy(x) == x # NULL /\ x # ""
Or(a, b) == IF Truthy(a) THEN a ELSE b

\* SQL COALESCE(a, b)
COALESCE(a, b) == IF a # NULL THEN a ELSE b

\* The one element of a singleton set.  { F(x) : x \in {e} } binds x to the
\* value of e, so that e is evaluated once however often F uses it.
Only(S) == CHOOSE x \in S : TRUE

\* JSON.stringify: the text of an object, kept apart from the object itself.
JSONstringify(obj) == <<"json", obj>>

(* ------------------------------- events -------------------------------- *)
\* event.data.object, flattened: the fields the handler reads.
EventObject(type, id, pay, cde, ce, ue, me, re, prod, promo, vsid) ==
    [type |-> type, id |-> id, payment_status |-> pay,
     customer_details_email |-> cde, customer_email |-> ce, meta_user_email |-> ue,
     meta_email |-> me, report_email |-> re,
     meta_product_id |-> prod, meta_promo_code |-> promo,
     meta_verification_session_id |-> vsid]

\* Optional fields come either all absent or all present.
CheckoutShapes ==
    { [cde |-> NULL, ce |-> NULL, ue |-> NULL, prod |-> NULL, promo |-> NULL],
      [cde |-> NULL, ce |-> "a@x.io", ue |-> "b@x.io", prod |-> "pro", promo |-> "X"] }
VerifShapes ==
    { [me |-> NULL, re |-> NULL, prod |-> NULL, promo |-> NULL],
      [me |-> NULL, re |-> "a@x.io", prod |-> "pro", promo |-> "X"] }

CheckoutEvents ==
    { EventObject(T_CHECKOUT, id, pay, sh.cde, sh.ce, sh.ue, NULL, NULL, sh.prod, sh.promo, vsid) :
        id \in CheckoutIds, pay \in PaymentStatuses, sh \in CheckoutShapes,
        vsid \in VerifIds \cup {NULL} }
VerifiedEvents ==
    { EventObject(T_VERIFIED, id, NULL, NULL, NULL, NULL, sh.me, sh.re, sh.prod, sh.promo, NULL) :
        id \in VerifIds, sh \in VerifShapes }
RequiresInputEvents ==
    { EventObject(T_REQUIRES_INPUT, id, NULL, NULL, NULL, NULL, sh.me, sh.re, sh.prod, sh.promo, NULL) :
        id \in VerifIds, sh \in VerifShapes }
OtherEvents ==
    { EventObject(T_OTHER, "pi_1", NULL, NULL, NULL, NULL, NULL, NULL, NULL, NULL, NULL) }
Events == CheckoutEvents \cup VerifiedEvents \cup RequiresInputEvents \cup OtherEvents

\* `event` when constructEvent threw: the handler never sees an event.
NoEvent == EventObject("<none>", NULL, NULL, NULL, NULL, NULL, NULL, NULL, NULL, NULL, NULL)

(* -------------------------------- store -------------------------------- *)
\* A row holds the columns the handler writes; id and created_at, which no
\* statement of the handler reads or sets, are left out.
\* Variant of VerificationIdTaken: the column declared without UNIQUE.
VerificationIdNotUnique(others, row) == FALSE

\* UNIQUE(verification_session_id): would `row` collide with one of `others`?
VerificationIdTaken(others, row) ==
    /\ row.verification_session_id # NULL
    /\ \E r \in others : r.verification_session_id = row.verification_session_id

\* The values bound to the statement's placeholders (row.x || null); the
\* payload is always an object, so `row.payload || {}` is row.payload.
BoundRow(row) ==
    [checkout_session_id |-> Or(row.checkout_session_id, NULL),
     verification_session_id |-> Or(row.verification_session_id, NULL),
     customer_email |-> Or(row.customer_email, NULL),
     product_id |-> Or(row.product_id, NULL),
     promo_code |-> Or(row.promo_code, NULL),
     status |-> row.status,
     payload |-> JSONstringify(row.payload)]

\* Variant of DoUpdate: every column overwritten by the excluded value.
DoUpdateBlind(old, new) ==
    [old EXCEPT
       !.verification_session_id = new.verification_session_id,
       !.customer_email = new.customer_email,
       !.product_id = new.product_id,
       !.promo_code = new.promo_code,
       !.status = new.status,
       !.payload = new.payload]

\* DO UPDATE SET ...: the existing row `old` after the statement, `new` being
\* the excluded row.
DoUpdate(old, new) ==
    [old EXCEPT
       !.verification_session_id =
           COALESCE(new.verification_session_id, old.verification_session_id),
       !.customer_email = COALESCE(new.customer_email, old.customer_email),
       !.product_id = COALESCE(new.product_id, old.product_id),
       !.promo_code = COALESCE(new.promo_code, old.promo_code),
       !.status = new.status,
       !.payload = new.payload]

\* Variant of upsert: the conflict target covers both session-id columns, so a
\* collision on either one updates the row it collides with.
upsertOnEitherKey(rows, row) ==
    Only({ LET hit == { r \in rows :
                          \/ new.checkout_session_id # NULL
                             /\ r.checkout_session_id = new.checkout_session_id
                          \/ new.verification_session_id # NULL
                             /\ r.verification_session_id = new.verification_session_id }
           IN  IF hit = {} THEN [err |-> FALSE, rows |-> rows \cup {new}]
               ELSE IF Cardinality(hit) > 1 THEN [err |-> TRUE, rows |-> rows]
               ELSE Only({ [err |-> FALSE,
                            rows |-> (rows \ {old}) \cup
                                {[DoUpdate(old, new) EXCEPT
                                    !.checkout_session_id =
                                        COALESCE(new.checkout_session_id,
                                                 old.checkout_session_id)]}]
                           : old \in hit })
           : new \in {BoundRow(row)} })

\* The statement of upsert: [err, rows].
upsert(rows, row) ==
    Only({ LET hit == { r \in rows : new.checkout_session_id # NULL
                                     /\ r.checkout_session_id = new.checkout_session_id }
           IN  IF hit # {}
               THEN Only({ Only({ IF VerificationIdTaken(rows \ {old}, upd)
                                  THEN [err |-> TRUE, rows |-> rows]
                                  ELSE [err |-> FALSE, rows |-> (rows \ {old}) \cup {upd}]
                                  : upd \in {DoUpdate(old, new)} })
                           : old \in hit })
               ELSE IF VerificationIdTaken(rows, new)
                    THEN [err |-> TRUE, rows |-> rows]
                    ELSE [err |-> FALSE, rows |-> rows \cup {new}]
           : new \in {BoundRow(row)} })

(* ------------------------------ handlers ------------------------------- *)
\* What the relay answers on success (the `data` of axios.post).
ProvisionData == "creds_1"

\* The outcome of a handler: the table, the status code and the outbound calls made.
Outcome(rows, code, pcalls, mcalls) ==
    [rows |-> rows, code |-> code, provision_calls |-> pcalls, mail_calls |-> mcalls]

\* The row provisionAndWelcome records as fulfilled.
FulfilledRow(args) ==
    [checkout_session_id |-> args.checkout_session_id,
     verification_session_id |-> args.verification_session_id,
     customer_email |-> args.email,
     product_id |-> args.product_id,
     promo_code |-> args.promo_code,
     status |-> "fulfilled",
     payload |-> [provision |-> ProvisionData, fulfilled_at |-> "now"]]

\* provisionAndWelcome: [threw, rows, provision_calls, mail_calls].
provisionAndWelcome(rows, args, relay, mail) ==
    IF relay # "ok"
    THEN [threw |-> TRUE, rows |-> rows, provision_calls |-> 1, mail_calls |-> 0]
    ELSE Only({ IF u.err
                THEN [threw |-> TRUE, rows |-> rows, provision_calls |-> 1, mail_calls |-> 0]
                ELSE [threw |-> (mail # "ok"), rows |-> u.rows,
                      provision_calls |-> 1, mail_calls |-> 1]
                : u \in {upsert(rows, FulfilledRow(args))} })

\* if (event.type === 'checkout.session.completed')
CheckoutCompleted(rows, s) ==
    LET email == Or(Or(Or(s.customer_details_email, s.customer_email), s.meta_user_email), NULL)
        product == Or(s.meta_product_id, "builder-pass")
        promo == Or(s.meta_promo_code, NULL)
        vsid == Or(s.meta_verification_session_id, NULL)
        u == upsert(rows,
               [checkout_session_id |-> s.id,
                verification_session_id |-> vsid,
                customer_email |-> email,
                product_id |-> product,
                promo_code |-> promo,
                status |-> IF s.payment_status = "paid" THEN "paid" ELSE "payment_not_paid",
                payload |-> s])
    IN  IF u.err THEN Outcome(rows, 500, 0, 0) ELSE Outcome(u.rows, 200, 0, 0)

\* The verified branch: what it hands to provisionAndWelcome.
VerifiedArgs(v) ==
    [email |-> Or(Or(v.meta_email, v.report_email), NULL),
     verification_session_id |-> v.id,
     product_id |-> Or(v.meta_product_id, "builder-pass"),
     promo_code |-> Or(v.meta_promo_code, NULL),
     checkout_session_id |-> NULL]

\* The verified branch: the row it records first.
VerifiedRow(v) ==
    [checkout_session_id |-> NULL,
     verification_session_id |-> v.id,
     customer_email |-> VerifiedArgs(v).email,
     product_id |-> VerifiedArgs(v).product_id,
     promo_code |-> VerifiedArgs(v).promo_code,
     status |-> "verified",
     payload |-> v]

\* if (event.type === 'identity.verification_session.verified')
VerificationVerified(rows, v, relay, mail) ==
    Only({ IF u.err
           THEN Outcome(rows, 500, 0, 0)
           ELSE Only({ Outcome(p.rows, IF p.threw THEN 500 ELSE 200,
                               p.provision_calls, p.mail_calls)
                       : p \in {provisionAndWelcome(u.rows, VerifiedArgs(v), relay, mail)} })
           : u \in {upsert(rows, VerifiedRow(v))} })

\* if (event.type === 'identity.verification_session.requires_input')
VerificationRequiresInput(rows, v) ==
    LET u == upsert(rows,
               [checkout_session_id |-> NULL,
                verification_session_id |-> v.id,
                customer_email |-> Or(v.meta_email, NULL),
                product_id |-> Or(v.meta_product_id, "builder-pass"),
                promo_code |-> Or(v.meta_promo_code, NULL),
                status |-> "needs_input",
                payload |-> v])
    IN  IF u.err THEN Outcome(rows, 500, 0, 0) ELSE Outcome(u.rows, 200, 0, 0)

\* Variant of constructEvent: the body parsed without checking the signature.
constructEventUnchecked(body, sig) == body

\* stripe.webhooks.constructEvent: the event, or NoEvent when it throws.
constructEvent(body, sig) == IF sig = "valid" THEN body ELSE NoEvent

\* Variant of webhook: an event type the dispatch does not know is an error.
webhookKnownTypesOnly(rows, body, sig, relay, mail) ==
    LET event == constructEvent(body, sig)
    IN  IF event = NoEvent THEN Outcome(rows, 400, 0, 0)
        ELSE IF event.type = T_CHECKOUT THEN CheckoutCompleted(rows, event)
        ELSE IF event.type = T_VERIFIED THEN VerificationVerified(rows, event, relay, mail)
        ELSE IF event.type = T_REQUIRES_INPUT THEN VerificationRequiresInput(rows, event)
        ELSE Outcome(rows, 500, 0, 0)

\* app.post('/webhook', ...): the outcome of one request.
webhook(rows, body, sig, relay, mail) ==
    LET event == constructEvent(body, sig)
    IN  IF event = NoEvent THEN Outcome(rows, 400, 0, 0)
        ELSE IF event.type = T_CHECKOUT THEN CheckoutCompleted(rows, event)
        ELSE IF event.type = T_VERIFIED THEN VerificationVerified(rows, event, relay, mail)
        ELSE IF event.type = T_REQUIRES_INPUT THEN VerificationRequiresInput(rows, event)
        ELSE Outcome(rows, 200, 0, 0)

(* -------------------------- requests in flight ------------------------- *)
\* The handler is an async function: it runs until it awaits a call (a
\* statement of the store, the relay, the mailer) and resumes when the call
\* completes; other requests run in between.  pc names the call awaited.
Slots == {"r1", "r2"}

Idle ==
    [pc |-> "idle", event |-> NoEvent, sig |-> "missing", relay |-> "none", mail |-> "none",
     code |-> 0, responses |-> 0, provision_calls |-> 0, mail_calls |-> 0,
     concurrent |-> FALSE, redelivered |-> FALSE, pending |-> <<>>]

InFlight(req) == req.pc \notin {"idle", "done"}

\* res.json(...), res.status(code).send(...)
Respond(req, code) == [req EXCEPT !.pc = "done", !.code = code, !.responses = @ + 1]

\* Variant of Catch: the error leaves the handler, no response is sent.
CatchNoResponse(req) == [req EXCEPT !.pc = "crashed"]

\* catch (err) { ...; return res.status(500).send('Server error') }
Catch(req) == Respond(req, 500)

\* Variant of Begin: the verified branch calls the relay before it writes.
BeginProvisionFirst(req) ==
    IF req.event = NoEvent THEN Respond(req, 400)
    ELSE IF req.event.type \in {T_CHECKOUT, T_REQUIRES_INPUT} THEN [req EXCEPT !.pc = "upsert"]
    ELSE IF req.event.type = T_VERIFIED
    THEN [req EXCEPT !.pc = "provision", !.provision_calls = @ + 1]
    ELSE Respond(req, 200)

\* The synchronous head of the handler, up to its first await.
Begin(req) ==
    IF req.event = NoEvent THEN Respond(req, 400)
    ELSE IF req.event.type \in {T_CHECKOUT, T_REQUIRES_INPUT} THEN [req EXCEPT !.pc = "upsert"]
    ELSE IF req.event.type = T_VERIFIED THEN [req EXCEPT !.pc = "upsert_verified"]
    ELSE Respond(req, 200)

\* Variant of AfterProvision: the answer of the relay is not looked at.
AfterProvisionUnchecked(req, outcome) ==
    [req EXCEPT !.relay = outcome, !.pc = "upsert_fulfilled"]

\* `await axios.post(...)` completes: it returns, or it throws into the catch.
AfterProvision(req, outcome) ==
    IF outcome = "ok" THEN [req EXCEPT !.relay = outcome, !.pc = "upsert_fulfilled"]
    ELSE Catch([req EXCEPT !.relay = outcome])

\* The outcomes of the call a request awaits.
Awaited(req) ==
    IF req.pc = "provision" THEN RelayOutcomes
    ELSE IF req.pc = "mail" THEN MailOutcomes
    ELSE {"ok"}

\* The awaited call completes with `outcome` and the handler runs on to its
\* next await or to its response: [rows, req].
Resume(rows, req, outcome) ==
    IF req.pc = "upsert"
    THEN Only({ [rows |-> o.rows,
                 req |-> IF o.code = 200 THEN Respond(req, 200) ELSE Catch(req)]
                : o \in {IF req.event.type = T_CHECKOUT
                         THEN CheckoutCompleted(rows, req.event)
                         ELSE VerificationRequiresInput(rows, req.event)} })
    ELSE IF req.pc = "upsert_verified"
    THEN Only({ [rows |-> u.rows,
                 req |-> IF u.err THEN Catch(req)
                         ELSE [req EXCEPT !.pc = "provision", !.provision_calls = @ + 1]]
                : u \in {upsert(rows, VerifiedRow(req.event))} })
    ELSE IF req.pc = "provision"
    THEN [rows |-> rows, req |-> AfterProvision(req, outcome)]
    ELSE IF req.pc = "upsert_fulfilled"
    THEN Only({ [rows |-> u.rows,
                 req |-> IF u.err THEN Catch(req)
                         ELSE [req EXCEPT !.pc = "mail", !.mail_calls = @ + 1]]
                : u \in {upsert(rows, FulfilledRow(VerifiedArgs(req.event)))} })
    ELSE IF req.pc = "mail"
    THEN [rows |-> rows,
          req |-> IF outcome = "ok" THEN Respond([req EXCEPT !.mail = outcome], 200)
                  ELSE Catch([req EXCEPT !.mail = outcome])]
    ELSE [rows |-> rows, req |-> req]

(* ----------------------- second variant (247-385) --------------------- *)
\* It creates no table: its statement names the table and the conflict
\* target of the first variant, whose schema (lines 31-41) is taken here.

\* Verified events whose metadata carry an email, besides those of VerifShapes.
VerifiedEvents2 ==
    VerifiedEvents \cup
    { EventObject(T_VERIFIED, id, NULL, NULL, NULL, NULL, "m@x.io", NULL, "pro", NULL, NULL) :
        id \in VerifIds }
Events2 == CheckoutEvents \cup VerifiedEvents2 \cup RequiresInputEvents \cup OtherEvents

\* DO UPDATE SET ... of the second variant: every column takes the excluded value.
DoUpdate2(old, new) ==
    [old EXCEPT
       !.verification_session_id = new.verification_session_id,
       !.customer_email = new.customer_email,
       !.product_id = new.product_id,
       !.promo_code = new.promo_code,
       !.status = new.status,
       !.payload = new.payload]

\* The statement of the second variant's upsert: [err, rows].
upsert2(rows, row) ==
    Only({ LET hit == { r \in rows : new.checkout_session_id # NULL
                                     /\ r.checkout_session_id = new.checkout_session_id }
           IN  IF hit # {}
               THEN Only({ Only({ IF VerificationIdTaken(rows \ {old}, upd)
                                  THEN [err |-> TRUE, rows |-> rows]
                                  ELSE [err |-> FALSE, rows |-> (rows \ {old}) \cup {upd}]
                                  : upd \in {DoUpdate2(old, new)} })
                           : old \in hit })
               ELSE IF VerificationIdTaken(rows, new)
                    THEN [err |-> TRUE, rows |-> rows]
                    ELSE [err |-> FALSE, rows |-> rows \cup {new}]
           : new \in {BoundRow(row)} })

\* case 'checkout.session.completed' (the events here carry no discount)
CheckoutCompleted2(rows, s) ==
    LET u == upsert2(rows,
               [checkout_session_id |-> s.id,
                verification_session_id |-> NULL,
                customer_email |-> s.customer_details_email,
                product_id |-> Or(s.meta_product_id, "builder-pass"),
                promo_code |-> NULL,
                status |-> "paid",
                payload |-> s])
    IN  IF u.err THEN Outcome(rows, 500, 0, 0) ELSE Outcome(u.rows, 200, 0, 0)

\* The rows the verified case writes.
VerifiedRow2(v, status, payload) ==
    [checkout_session_id |-> NULL,
     verification_session_id |-> v.id,
     customer_email |-> v.meta_email,
     product_id |-> Or(v.meta_product_id, "builder-pass"),
     promo_code |-> NULL,
     status |-> status,
     payload |-> payload]

\* case 'identity.verification_session.verified'
VerificationVerified2(rows, v, relay, mail) ==
    Only({ IF u.err THEN Outcome(rows, 500, 0, 0)
           ELSE IF ~Truthy(v.meta_email) THEN Outcome(u.rows, 200, 0, 0)
           ELSE IF relay # "ok" THEN Outcome(u.rows, 500, 1, 0)
           ELSE Only({ IF f.err THEN Outcome(u.rows, 500, 1, 0)
                       ELSE Outcome(f.rows, IF mail = "ok" THEN 200 ELSE 500, 1, 1)
                       : f \in {upsert2(u.rows,
                                   VerifiedRow2(v, "fulfilled", [fulfilled_at |-> "now"]))} })
           : u \in {upsert2(rows, VerifiedRow2(v, "verified", v))} })

\* case 'identity.verification_session.requires_input'
VerificationRequiresInput2(rows, v) ==
    LET u == upsert2(rows, VerifiedRow2(v, "needs_input", v))
    IN  IF u.err THEN Outcome(rows, 500, 0, 0) ELSE Outcome(u.rows, 200, 0, 0)

\* app.post('/webhook', ...) of the second variant: the outcome of one request.
webhook2(rows, body, sig, relay, mail) ==
    LET event == constructEvent(body, sig)
    IN  IF event = NoEvent THEN Outcome(rows, 400, 0, 0)
        ELSE IF event.type = T_CHECKOUT THEN CheckoutCompleted2(rows, event)
        ELSE IF event.type = T_VERIFIED THEN VerificationVerified2(rows, event, relay, mail)
        ELSE IF event.type = T_REQUIRES_INPUT THEN VerificationRequiresInput2(rows, event)
        ELSE Outcome(rows, 200, 0, 0)

(* ------------------------ third variant (433-543) --------------------- *)
\* Its table declares checkout_session_id UNIQUE and verification_session_id
\* without UNIQUE (lines 405-415); its statements are a lookup by
\* checkout_session_id and plain INSERTs, which the handler starts with
\* db.run and does not wait for: `pending` holds the INSERTs of a request that
\* were started and have not run yet.

\* const customerEmail = ... (line 476)
CustomerEmail3(session) ==
    Or(Or(session.customer_details_email, session.meta_user_email), session.customer_email)

\* The row of the INSERT of line 464 (status 'payment_not_paid') and of line
\* 530 (status 'fulfillment_failed').
TrackingRow3(session, status, payload) ==
    [checkout_session_id |-> session.id,
     verification_session_id |-> Or(session.meta_verification_session_id, NULL),
     customer_email |-> Or(Or(session.customer_details_email, session.customer_email), NULL),
     product_id |-> Or(session.meta_product_id, NULL),
     promo_code |-> Or(session.meta_promo_code, NULL),
     status |-> status,
     payload |-> JSONstringify(payload)]

\* The row of the INSERT of line 496 (status 'fulfilled').
FulfilledRow3(session) ==
    [checkout_session_id |-> session.id,
     verification_session_id |-> session.meta_verification_session_id,
     customer_email |-> CustomerEmail3(session),
     product_id |-> Or(session.meta_product_id, "prod_SPRA50"),
     promo_code |-> Or(session.meta_promo_code, NULL),
     status |-> "fulfilled",
     payload |-> JSONstringify(ProvisionData)]

\* INSERT INTO fulfillments ...: a collision on checkout_session_id aborts the
\* statement; the handler passes no callback, or one that only logs.
Insert3(rows, row) ==
    IF \E r \in rows : r.checkout_session_id = row.checkout_session_id
    THEN rows
    ELSE rows \cup {row}

\* catch (fulfillErr): start the INSERT of the failed state, answer 500.
Catch3(req) ==
    Respond([req EXCEPT !.pending =
                 Append(@, TrackingRow3(req.event, "fulfillment_failed",
                                        [error |-> "fulfillErr"]))],
            500)

\* The synchronous head of the handler, up to db.get.
Begin3(req) ==
    IF req.event = NoEvent THEN Respond(req, 400)
    ELSE IF req.event.type = T_CHECKOUT THEN [req EXCEPT !.pc = "lookup"]
    ELSE Respond(req, 200)

\* SELECT * FROM fulfillments WHERE checkout_session_id = ?: is there a row?
Lookup3(rows, session) == \E r \in rows : r.checkout_session_id = session.id

\* The awaited call completes with `outcome` and the handler runs on to its
\* next await or to its response.
Resume3(rows, req, outcome) ==
    IF req.pc = "lookup"
    THEN IF Lookup3(rows, req.event) THEN Respond(req, 200)
         ELSE IF req.event.payment_status # "paid"
         THEN Respond([req EXCEPT !.pending =
                           Append(@, TrackingRow3(req.event, "payment_not_paid", req.event))],
                      200)
         ELSE [req EXCEPT !.pc = "provision", !.provision_calls = @ + 1]
    ELSE IF req.pc = "provision"
    THEN IF outcome = "ok"
         THEN [req EXCEPT !.relay = outcome,
                          !.pending = Append(@, FulfilledRow3(req.event)),
                          !.pc = "mail", !.mail_calls = @ + 1]
         ELSE Catch3([req EXCEPT !.relay = outcome])
    ELSE IF req.pc = "mail"
    THEN IF outcome = "ok" THEN Respond([req EXCEPT !.mail = outcome], 200)
         ELSE Catch3([req EXCEPT !.mail = outcome])
    ELSE req

(* ------------------------------- health -------------------------------- *)
\* A column of a result row, as JSON: null, or a number.
SqlNull == <<>>
SqlInt(n) == <<n>>

\* SUM(CASE WHEN status = s THEN 1 ELSE 0 END) over the table: SUM of no rows
\* is NULL.
SumCaseStatus(rows, s) ==
    IF rows = {} THEN SqlNull ELSE SqlInt(Cardinality({ r \in rows : r.status = s }))

\* app.get('/api/health'): the JSON answered, { ok: true, ...row }.  The
\* events_24h column reads created_at, which the rows here do not carry.
healthSnapshot(rows) ==
    [code |-> 200, ok |-> TRUE,
     verified |-> SumCaseStatus(rows, "verified"),
     fulfilled |-> SumCaseStatus(rows, "fulfilled")]

\* No GET /api/health handled yet.
NoHealth == [code |-> 0, ok |-> FALSE, verified |-> SqlNull, fulfilled |-> SqlNull, seq |-> 0]

(* ------------------------------- actions ------------------------------- *)
\* Request bodies: any event under a valid signature; one body of each event
\* type under a bad one (constructEvent throws before the body is read).
Bodies(sig) ==
    IF sig = "valid" THEN Events
    ELSE { e \in Events : /\ e.id \in {"cs_1", "vs_1", "pi_1"}
                          /\ e.payment_status \in {NULL, "paid"}
                          /\ e.meta_promo_code = NULL
                          /\ e.meta_verification_session_id = NULL }

\* The relay and the mailer are consulted by the verified branch only.
RelayInputs(body, sig) ==
    IF sig = "valid" /\ body.type = T_VERIFIED THEN RelayOutcomes ELSE {"ok"}
MailInputs(body, sig, relay) ==
    IF sig = "valid" /\ body.type = T_VERIFIED /\ relay = "ok" THEN MailOutcomes ELSE {"ok"}

Handle(body, sig, relay, mail) ==
    \E o \in {webhook(fulfillments, body, sig, relay, mail)},
       event \in {constructEvent(body, sig)} :
        /\ fulfillments' = o.rows
        /\ last' = [event |-> event, sig |-> sig, relay |-> relay, mail |-> mail,
                    code |-> o.code,
                    provision_calls |-> o.provision_calls,
                    mail_calls |-> o.mail_calls,
                    repeat |-> (event # NoEvent /\ event = last.event),
                    seq |-> 1 - last.seq]
        /\ UNCHANGED <<health, reqs>>

\* A request arrives at POST /webhook for the first time.
Webhook ==
    /\ deliveries < MaxDeliveries
    /\ \E sig \in Signatures :
         \E body \in Bodies(sig) :
            \E relay \in RelayInputs(body, sig) :
               \E mail \in MailInputs(body, sig, relay) :
                  Handle(body, sig, relay, mail)
    /\ deliveries' = deliveries + 1

\* The provider delivers again the event it was just answered 500 for.
Redelivery ==
    /\ last.code = 500
    /\ \E relay \in RelayInputs(last.event, "valid") :
         \E mail \in MailInputs(last.event, "valid", relay) :
            Handle(last.event, "valid", relay, mail)
    /\ UNCHANGED deliveries

Init ==
    /\ fulfillments = {}
    /\ deliveries = 0
    /\ last = [event |-> NoEvent, sig |-> "missing", relay |-> "ok", mail |-> "ok",
               code |-> 0, provision_calls |-> 0, mail_calls |-> 0,
               repeat |-> FALSE, seq |-> 0]
    /\ health = NoHealth
    /\ reqs = [s \in Slots |-> Idle]

Next == Webhook \/ Redelivery

\* A request arrives at GET /api/health.
Health ==
    /\ health' = [code |-> healthSnapshot(fulfillments).code,
                  ok |-> healthSnapshot(fulfillments).ok,
                  verified |-> healthSnapshot(fulfillments).verified,
                  fulfilled |-> healthSnapshot(fulfillments).fulfilled,
                  seq |-> 1 - health.seq]
    /\ UNCHANGED <<fulfillments, deliveries, last, reqs>>

HealthNext == Webhook \/ Redelivery \/ Health

\* A request arrives at POST /webhook while others may be in flight, and runs
\* to its first await.
Arrive(s) ==
    /\ deliveries < MaxArrivals
    /\ ~InFlight(reqs[s])
    /\ \E sig \in Signatures :
         \E body \in Bodies(sig) :
            \E conc \in {\E t \in Slots \ {s} : InFlight(reqs[t])} :
               reqs' = [t \in Slots |->
                          IF t = s
                          THEN Begin([Idle EXCEPT !.event = constructEvent(body, sig),
                                                  !.sig = sig, !.concurrent = conc])
                          ELSE IF InFlight(reqs[t])
                               THEN [reqs[t] EXCEPT !.concurrent = TRUE]
                               ELSE reqs[t]]
    /\ deliveries' = deliveries + 1
    /\ UNCHANGED <<fulfillments, last, health>>

\* The call request s awaits completes and its handler runs on.
Completion(s) ==
    /\ InFlight(reqs[s])
    /\ \E outcome \in Awaited(reqs[s]) :
         \E n \in {Resume(fulfillments, reqs[s], outcome)} :
            /\ fulfillments' = n.rows
            /\ reqs' = [reqs EXCEPT ![s] = n.req]
    /\ UNCHANGED <<deliveries, last, health>>

AsyncNext == \E s \in Slots : Arrive(s) \/ Completion(s)

\* Request bodies of the second variant.
Bodies2(sig) == IF sig = "valid" THEN Events2 ELSE Bodies(sig)

Handle2(body, sig, relay, mail) ==
    \E o \in {webhook2(fulfillments, body, sig, relay, mail)},
       event \in {constructEvent(body, sig)} :
        /\ fulfillments' = o.rows
        /\ last' = [event |-> event, sig |-> sig, relay |-> relay, mail |-> mail,
                    code |-> o.code,
                    provision_calls |-> o.provision_calls,
                    mail_calls |-> o.mail_calls,
                    repeat |-> (event # NoEvent /\ event = last.event),
                    seq |-> 1 - last.seq]
        /\ UNCHANGED <<health, reqs>>

\* Second variant: a request arrives at POST /webhook for the first time.
Webhook2 ==
    /\ deliveries < MaxDeliveries
    /\ \E sig \in Signatures :
         \E body \in Bodies2(sig) :
            \E relay \in RelayInputs(body, sig) :
               \E mail \in MailInputs(body, sig, relay) :
                  Handle2(body, sig, relay, mail)
    /\ deliveries' = deliveries + 1

\* Second variant: the provider delivers again the event it was answered 500 for.
Redelivery2 ==
    /\ last.code = 500
    /\ \E relay \in RelayInputs(last.event, "valid") :
         \E mail \in MailInputs(last.event, "valid", relay) :
            Handle2(last.event, "valid", relay, mail)
    /\ UNCHANGED deliveries

Next2 == Webhook2 \/ Redelivery2

\* Third variant: a request arrives and runs to its first await.
Arrive3(s) ==
    /\ deliveries < MaxArrivals
    /\ ~InFlight(reqs[s]) /\ reqs[s].pending = <<>>
    /\ \E sig \in Signatures :
         \E body \in Bodies(sig) :
            reqs' = [reqs EXCEPT ![s] = Begin3([Idle EXCEPT !.event = constructEvent(body, sig),
                                                           !.sig = sig])]
    /\ deliveries' = deliveries + 1
    /\ UNCHANGED <<fulfillments, last, health>>

\* Third variant: the provider delivers again the event it was answered 500
\* for; the INSERTs the failed handler started have run by then.
Redeliver3(s) ==
    /\ reqs[s].pc = "done" /\ reqs[s].code = 500 /\ reqs[s].pending = <<>>
    /\ reqs' = [reqs EXCEPT ![s] = Begin3([Idle EXCEPT !.event = reqs[s].event,
                                                       !.sig = "valid",
                                                       !.redelivered = TRUE])]
    /\ UNCHANGED <<fulfillments, deliveries, last, health>>

\* Third variant: the call request s awaits completes and its handler runs on.
Completion3(s) ==
    /\ InFlight(reqs[s])
    /\ \E outcome \in Awaited(reqs[s]) :
         reqs' = [reqs EXCEPT ![s] = Resume3(fulfillments, reqs[s], outcome)]
    /\ UNCHANGED <<fulfillments, deliveries, last, health>>

\* Third variant: an INSERT that a handler started runs.
RunInsert3(s) ==
    /\ reqs[s].pending # <<>>
    /\ fulfillments' = Insert3(fulfillments, Head(reqs[s].pending))
    /\ reqs' = [reqs EXCEPT ![s].pending = Tail(@)]
    /\ UNCHANGED <<deliveries, last, health>>

Next3 == \E s \in Slots : Arrive3(s) \/ Redeliver3(s) \/ Completion3(s) \/ RunInsert3(s)

\* The columns of table fulfillments and the shape of the request in hand.
Statuses ==
    {"paid", "verified", "fulfilled", "needs_input", "payment_not_paid", "fulfillment_failed"}
TypeOK ==
    /\ \A r \in fulfillments :
          /\ DOMAIN r = {"checkout_session_id", "verification_session_id", "customer_email",
                         "product_id", "promo_code", "status", "payload"}
          /\ r.checkout_session_id \in CheckoutIds \cup {NULL}
          /\ r.verification_session_id \in VerifIds \cup {NULL}
          /\ r.status \in Statuses
          /\ r.payload[1] = "json"
    /\ deliveries \in 0..MaxDeliveries
    /\ last.event \in Events \cup Events2 \cup {NoEvent}
    /\ last.sig \in Signatures
    /\ last.code \in {0, 200, 400, 500}
    /\ last.provision_calls \in {0, 1} /\ last.mail_calls \in {0, 1}
    /\ health.code \in {0, 200}
    /\ \A s \in Slots :
          /\ reqs[s].pc \in {"idle", "upsert", "upsert_verified", "lookup", "provision",
                              "upsert_fulfilled", "mail", "done"}
          /\ reqs[s].event \in Events \cup {NoEvent}
          /\ reqs[s].code \in {0, 200, 400, 500}
          /\ reqs[s].provision_calls \in {0, 1} /\ reqs[s].mail_calls \in {0, 1}
          /\ Len(reqs[s].pending) <= 2

Spec == Init /\ [][Next]_vars

\* The handler step by step, with up to two requests in flight.
AsyncSpec == Init /\ [][AsyncNext]_vars

\* The second variant of the handler, one request at a time.
Spec2 == Init /\ [][Next2]_vars

\* The third variant of the handler step by step, with up to two requests
\* in flight and redeliveries of what was answered 500.
Spec3 == Init /\ [][Next3]_vars

\* The webhook traffic of Spec together with requests to the health endpoint.
HealthSpec == Init /\ [][HealthNext]_vars

\* The provider keeps redelivering an event answered 500, and the relay and the
\* mailer eventually stay up: a redelivery that finds both up is not put off
\* forever.
GoodRedelivery ==
    /\ last.code = 500
    /\ Handle(last.event, "valid", "ok", "ok")
    /\ UNCHANGED deliveries

FairSpec == Init /\ [][Next]_vars /\ WF_vars(GoodRedelivery)

(* ------------------------------ properties ----------------------------- *)
RowsOfCheckout(rows, c) == { r \in rows : r.checkout_session_id = c }
RowsOfVerification(rows, v) == { r \in rows : r.verification_session_id = v }

Signed == last.event # NoEvent
FulfilledPayload == JSONstringify([provision |-> ProvisionData, fulfilled_at |-> "now"])

\* C1: after any sequence of signed events and redeliveries the table holds at
\* most one row per checkout session id and at most one per verification
\* session id, and handling an event again right after it was handled adds
\* no row.
C1_OneRowPerSession ==
    /\ [](/\ \A c \in CheckoutIds : Cardinality(RowsOfCheckout(fulfillments, c)) <= 1
          /\ \A v \in VerifIds : Cardinality(RowsOfVerification(fulfillments, v)) <= 1)
    /\ [][last'.repeat => Cardinality(fulfillments') = Cardinality(fulfillments)]_vars

\* C1 witness: a verified event was redelivered while the table already held
\* a row for its session and a checkout row.
C1_Witness ==
    /\ last.repeat /\ last.event.type = T_VERIFIED
    /\ RowsOfVerification(fulfillments, last.event.id) # {}
    /\ \E c \in CheckoutIds : RowsOfCheckout(fulfillments, c) # {}

\* C2: a request whose signature check fails is answered 400 and leaves the
\* table as it was, with no provisioning call and no mail.
C2_BadSignatureNoEffect ==
    [][last'.sig # "valid" =>
          /\ fulfillments' = fulfillments
          /\ last'.code = 400
          /\ last'.provision_calls = 0 /\ last'.mail_calls = 0]_vars

\* C2 witness: a request with a bad signature was answered while the table
\* held rows.
C2_Witness ==
    /\ last.sig \in {"invalid", "missing"} /\ last.code = 400
    /\ fulfillments # {}

\* C3: a verified event handled with a succeeding relay and a succeeding
\* mailer leaves its row 'fulfilled' with the relay's response as payload,
\* and is answered 200.
C3_VerifiedIsFulfilled ==
    (Signed /\ last.event.type = T_VERIFIED
            /\ last.provision_calls = 1 /\ last.relay = "ok" /\ last.mail = "ok") =>
        /\ last.code = 200
        /\ \E r \in RowsOfVerification(fulfillments, last.event.id) :
              r.status = "fulfilled" /\ r.payload = FulfilledPayload

\* C4: a verified event whose provisioning call fails leaves its row
\* 'fulfillment_failed', sends no mail and is answered 500.
C4_RelayFailureRecorded ==
    (Signed /\ last.event.type = T_VERIFIED
            /\ last.provision_calls = 1 /\ last.relay # "ok") =>
        /\ last.code = 500
        /\ last.mail_calls = 0
        /\ \E r \in RowsOfVerification(fulfillments, last.event.id) :
              r.status = "fulfillment_failed"

\* The provisioning call or the mail send of the delivery of e just handled
\* failed, and the delivery was answered 500.
FailedTransient(e) ==
    /\ last.event = e /\ last.code = 500 /\ last.provision_calls = 1
    /\ (last.relay # "ok" \/ (last.mail_calls = 1 /\ last.mail # "ok"))

\* The delivery of e just handled was answered 200 and its row is 'fulfilled'.
Acknowledged(e) ==
    /\ last.event = e /\ last.code = 200
    /\ \E r \in RowsOfVerification(fulfillments, e.id) : r.status = "fulfilled"

\* C5: when a verified event is answered 500 after a transient relay or mail
\* failure and the provider keeps redelivering that event with the relay and
\* the mailer up again, a delivery is eventually answered 200 with the row
\* 'fulfilled'.
C5_RetryMakesProgress ==
    \A e \in VerifiedEvents :
        [](FailedTransient(e) => <>(Acknowledged(e) \/ last.event # e))

\* The verification session an event carries is held by the row of another
\* checkout session.
HeldByOtherCheckout(e) ==
    \E r \in RowsOfVerification(fulfillments, e.meta_verification_session_id) :
        /\ r.verification_session_id # NULL
        /\ r.checkout_session_id \notin {NULL, e.id}

\* C6: a checkout event leaves a row for its checkout session id whose status
\* is 'paid' exactly when payment_status is 'paid' and 'payment_not_paid'
\* otherwise, is answered 200, and makes no provisioning call and no mail.
\* Stated for the events whose verification session no other checkout
\* session holds, where two purchases do not compete for one session.
C6_CheckoutRecorded ==
    (Signed /\ last.event.type = T_CHECKOUT /\ ~HeldByOtherCheckout(last.event)) =>
        /\ last.code = 200
        /\ last.provision_calls = 0 /\ last.mail_calls = 0
        /\ \E r \in RowsOfCheckout(fulfillments, last.event.id) :
              r.status = IF last.event.payment_status = "paid"
                         THEN "paid" ELSE "payment_not_paid"

\* Two rows are the same row at two moments when they share a session id.
SameRow(r1, r2) ==
    \/ r1.checkout_session_id # NULL /\ r1.checkout_session_id = r2.checkout_session_id
    \/ r1.verification_session_id # NULL
       /\ r1.verification_session_id = r2.verification_session_id

\* The idempotency key an event refers to.
KeyRows(rows, e) ==
    IF e.type = T_CHECKOUT THEN RowsOfCheckout(rows, e.id)
    ELSE IF e.type \in {T_VERIFIED, T_REQUIRES_INPUT} THEN RowsOfVerification(rows, e.id)
    ELSE {}

\* The statuses the handling of an event may leave on its row.
StatusesOf(e) ==
    IF e.type = T_CHECKOUT
    THEN {IF e.payment_status = "paid" THEN "paid" ELSE "payment_not_paid"}
    ELSE IF e.type = T_VERIFIED THEN {"verified", "fulfilled", "fulfillment_failed"}
    ELSE {"needs_input"}

\* C7: an event whose key is already in the table is applied to the existing
\* row (the row takes the status the event writes, no row is added, the event
\* is not rejected), and no request removes a row.
C7_LaterEventApplied ==
    [][/\ \A r \in fulfillments : \E r2 \in fulfillments' : SameRow(r, r2)
       /\ (last'.event # NoEvent /\ KeyRows(fulfillments, last'.event) # {}) =>
             /\ Cardinality(fulfillments') = Cardinality(fulfillments)
             /\ \E r2 \in KeyRows(fulfillments', last'.event) :
                   r2.status \in StatusesOf(last'.event)]_vars

\* C8: a checkout event carrying verification session V and the verified
\* event of V end, in either order, in one row holding both ids; the
\* fulfilment write goes into the checkout row when that row exists.
C8_Converges ==
    [][/\ (/\ last'.event.type = T_CHECKOUT
           /\ \E r \in fulfillments :
                 /\ r.verification_session_id # NULL
                 /\ r.verification_session_id = last'.event.meta_verification_session_id
                 /\ r.checkout_session_id \in {NULL, last'.event.id}) =>
             /\ \E r2 \in fulfillments' :
                   /\ r2.checkout_session_id = last'.event.id
                   /\ r2.verification_session_id = last'.event.meta_verification_session_id
             /\ Cardinality(RowsOfVerification(fulfillments',
                                 last'.event.meta_verification_session_id)) = 1
       /\ \A r \in fulfillments :
             (/\ last'.event.type = T_VERIFIED
              /\ r.checkout_session_id # NULL
              /\ r.verification_session_id = last'.event.id) =>
                \E r2 \in fulfillments' :
                   /\ r2.checkout_session_id = r.checkout_session_id
                   /\ r2.verification_session_id = last'.event.id
                   /\ r2.status \in {"verified", "fulfilled", "fulfillment_failed"}
                   /\ (last'.relay = "ok" => r2.status = "fulfilled")]_vars

\* The stage of a status on the lifecycle paid/payment_not_paid -> verified ->
\* fulfilled; 0 for the sideways statuses needs_input and fulfillment_failed.
Stage(status) ==
    IF status \in {"paid", "payment_not_paid"} THEN 1
    ELSE IF status = "verified" THEN 2
    ELSE IF status = "fulfilled" THEN 3
    ELSE 0

\* C9: no request moves the status of a row from a stage of the lifecycle to
\* an earlier one.
C9_StatusNeverBackwards ==
    [][\A r \in fulfillments, r2 \in fulfillments' :
          (SameRow(r, r2) /\ Stage(r.status) # 0 /\ Stage(r2.status) # 0) =>
              Stage(r2.status) >= Stage(r.status)]_vars

\* C9 witness: a later event was applied to an existing row and rewrote its
\* status (the row keeps an email that the event stored with it does not carry).
C9_Witness ==
    \E r \in fulfillments :
        /\ r.checkout_session_id = last.event.id /\ last.event.type = T_CHECKOUT
        /\ r.customer_email # NULL /\ r.payload[2].customer_email = NULL
        /\ r.status = "payment_not_paid" /\ last.code = 200

\* C10: handling the same signed event a second time, right after the first,
\* leaves the table as the first handling left it, and makes no provisioning
\* call and sends no mail beyond those of the first.
C10_Idempotent ==
    [][last'.repeat =>
          /\ fulfillments' = fulfillments
          /\ last'.provision_calls <= last.provision_calls
          /\ last'.mail_calls <= last.mail_calls]_vars

\* C10 witness: a verified event that was provisioned on its first handling
\* has been handled a second time.
C10_Witness ==
    /\ last.repeat /\ last.event.type = T_VERIFIED
    /\ last.provision_calls = 0 /\ last.code = 500
    /\ RowsOfVerification(fulfillments, last.event.id) # {}

\* Rows handed to upsert: each mergeable field absent (null or the empty
\* string, which `|| null` turns into null) or present.
UpsertRows ==
    [checkout_session_id : CheckoutIds,
     verification_session_id : {NULL, "vs_1"},
     customer_email : {NULL, "", "n@x.io"},
     product_id : {NULL, "basic"},
     promo_code : {NULL, "Y"},
     status : {"paid", "fulfilled"},
     payload : {[k |-> "v"]}]

MergedFields == {"verification_session_id", "customer_email", "product_id", "promo_code"}

\* C11: an upsert for a checkout session id the table holds, when the
\* statement completes, leaves one row for that id in which each of
\* verification_session_id, customer_email, product_id and promo_code is the
\* incoming value if one is present and the existing value otherwise, and
\* status and payload are the incoming ones; no row is added.  Checked for
\* every row of UpsertRows against every reachable table, and for every
\* checkout event the handler applies to an existing row.
C11_MergeSemantics ==
    /\ [](\A old \in fulfillments, row \in UpsertRows :
            (row.checkout_session_id = old.checkout_session_id) =>
                \E u \in {upsert(fulfillments, row)} :
                    ~u.err =>
                        /\ Cardinality(u.rows) = Cardinality(fulfillments)
                        /\ \E r2 \in RowsOfCheckout(u.rows, old.checkout_session_id) :
                              /\ \A f \in MergedFields :
                                    r2[f] = IF Truthy(row[f]) THEN row[f] ELSE old[f]
                              /\ r2.status = row.status
                              /\ r2.payload = JSONstringify(row.payload))
    /\ [][\A old \in fulfillments :
            (/\ last'.event.type = T_CHECKOUT /\ last'.code = 200
             /\ old.checkout_session_id = last'.event.id) =>
                \E r2 \in RowsOfCheckout(fulfillments', old.checkout_session_id) :
                    /\ r2.promo_code = IF Truthy(last'.event.meta_promo_code)
                                       THEN last'.event.meta_promo_code ELSE old.promo_code
                    /\ r2.verification_session_id =
                          IF Truthy(last'.event.meta_verification_session_id)
                          THEN last'.event.meta_verification_session_id
                          ELSE old.verification_session_id
                    /\ r2.status \in StatusesOf(last'.event)
                    /\ r2.payload = JSONstringify(last'.event)]_vars

\* C11 witness: a checkout event without promo code and without verification
\* session was applied to a row that held both: the row keeps them and takes
\* the event's status and payload.
C11_Witness ==
    /\ last.event.type = T_CHECKOUT /\ last.code = 200
    /\ last.event.meta_promo_code = NULL
    /\ last.event.meta_verification_session_id = NULL
    /\ last.event.payment_status = "unpaid"
    /\ \E r \in RowsOfCheckout(fulfillments, last.event.id) :
          /\ r.promo_code = "X" /\ r.verification_session_id = "vs_1"
          /\ r.status = "payment_not_paid" /\ r.payload = JSONstringify(last.event)

\* C14: a verified event whose provisioning call succeeds while the mailer is
\* down ends with the mail attempted, the request answered 500 and the row
\* 'fulfilled': the fulfilled write precedes the mail and survives its failure.
C14_FulfilledSurvivesMailFailure ==
    (Signed /\ last.event.type = T_VERIFIED
            /\ last.provision_calls = 1 /\ last.relay = "ok" /\ last.mail = "failed") =>
        /\ last.mail_calls = 1
        /\ last.code = 500
        /\ \E r \in RowsOfVerification(fulfillments, last.event.id) : r.status = "fulfilled"

\* No request of the primary handler ever leaves a row 'fulfilled'.
NeverFulfilled == \A r \in fulfillments : r.status # "fulfilled"

\* The event types the dispatch names.
KnownTypes == {T_CHECKOUT, T_VERIFIED, T_REQUIRES_INPUT}

\* C15: a signed event of a type the dispatch does not name is answered 200
\* and leaves the table as it was, with no provisioning call and no mail.
C15_OtherEventsAcknowledged ==
    [][(last'.event # NoEvent /\ last'.event.type \notin KnownTypes) =>
          /\ last'.code = 200
          /\ fulfillments' = fulfillments
          /\ last'.provision_calls = 0 /\ last'.mail_calls = 0]_vars

\* C15 witness: an event of another type was answered 200 while the table
\* held rows.
C15_Witness ==
    /\ last.event.type = T_OTHER /\ last.sig = "valid" /\ last.code = 200
    /\ fulfillments # {}

\* C16: the 'fulfilled' value answered by GET /api/health is the number of
\* rows whose status is 'fulfilled', the 'verified' value the number of rows
\* whose status is 'verified', whatever the table holds (the empty table
\* included), and the request leaves the table as it was.
C16_HealthCounts ==
    [][health'.seq # health.seq =>
          /\ health'.fulfilled =
                SqlInt(Cardinality({ r \in fulfillments : r.status = "fulfilled" }))
          /\ health'.verified =
                SqlInt(Cardinality({ r \in fulfillments : r.status = "verified" }))
          /\ fulfillments' = fulfillments]_vars

\* The same for a table that holds at least one row.
C16_HealthCountsNonEmpty ==
    [][(health'.seq # health.seq /\ fulfillments # {}) =>
          /\ health'.fulfilled =
                SqlInt(Cardinality({ r \in fulfillments : r.status = "fulfilled" }))
          /\ health'.verified =
                SqlInt(Cardinality({ r \in fulfillments : r.status = "verified" }))
          /\ fulfillments' = fulfillments]_vars

\* C12: two requests for the same idempotency key that were in flight
\* together, each made of one upsert (checkout events, requires_input
\* events), both complete without error and leave exactly one row for the
\* key, which carries the status and payload of the upsert applied last.
C12_ConcurrentSameKey ==
    \A s \in Slots, t \in Slots :
        (/\ s # t
         /\ reqs[s].pc = "done" /\ reqs[t].pc = "done"
         /\ reqs[s].concurrent /\ reqs[t].concurrent
         /\ reqs[s].event.type \in {T_CHECKOUT, T_REQUIRES_INPUT}
         /\ reqs[t].event.type = reqs[s].event.type
         /\ reqs[t].event.id = reqs[s].event.id) =>
            /\ reqs[s].code = 200 /\ reqs[t].code = 200
            /\ Cardinality(KeyRows(fulfillments, reqs[s].event)) = 1
            /\ \E r \in KeyRows(fulfillments, reqs[s].event) :
                  \E e \in {reqs[s].event, reqs[t].event} :
                      r.payload = JSONstringify(e) /\ r.status \in StatusesOf(e)

\* C13: the 'fulfilled' write is reached only by a request whose provisioning
\* call returned successfully; a request whose call timed out or was rejected
\* is answered 500 at once and writes nothing, and no row becomes 'fulfilled'
\* but by the write of such a request.
C13_FulfilledOnlyAfterProvision ==
    /\ [](\A s \in Slots :
            reqs[s].pc \in {"upsert_fulfilled", "mail"} =>
                reqs[s].relay = "ok" /\ reqs[s].provision_calls = 1)
    /\ [][\A s \in Slots :
            (reqs[s].pc = "provision" /\ reqs'[s].relay \in {"rejected", "timeout"}) =>
                /\ fulfillments' = fulfillments
                /\ reqs'[s].pc = "done" /\ reqs'[s].code = 500]_vars
    /\ [][\A r2 \in fulfillments' :
            (r2.status = "fulfilled" /\ r2 \notin fulfillments) =>
                \E s \in Slots : reqs[s].pc = "upsert_fulfilled" /\ reqs[s].relay = "ok"]_vars

\* C13 witness: a verified event whose provisioning call was rejected or timed
\* out has been answered 500, its row still 'verified'.
C13_Witness ==
    \E s \in Slots :
        /\ reqs[s].pc = "done" /\ reqs[s].code = 500 /\ reqs[s].provision_calls = 1
        /\ reqs[s].relay \in {"rejected", "timeout"}
        /\ \E r \in RowsOfVerification(fulfillments, reqs[s].event.id) : r.status = "verified"

\* How far a handler has come.
Rank(pc) ==
    CASE pc = "idle" -> 0
      [] pc \in {"upsert", "upsert_verified"} -> 1
      [] pc = "provision" -> 2
      [] pc = "upsert_fulfilled" -> 3
      [] pc = "mail" -> 4
      [] pc = "done" -> 5
      [] OTHER -> 0

\* C17: a request is answered at most once, is answered exactly once when its
\* handler has ended, with 200, 400 or 500; the answer of a request is not
\* touched by what happens to another; and every request that arrived is
\* answered whatever the store, the relay and the mailer do: while it is
\* unanswered the call it awaits can complete, and every completion, failed
\* or not, takes its handler further towards its answer.
C17_ExactlyOneResponse ==
    /\ [](\A s \in Slots :
            /\ reqs[s].pc \in {"idle", "upsert", "upsert_verified", "provision",
                                "upsert_fulfilled", "mail", "done"}
            /\ reqs[s].responses = IF reqs[s].pc = "done" THEN 1 ELSE 0
            /\ reqs[s].pc = "done" => reqs[s].code \in {200, 400, 500})
    /\ [][\A t \in Slots :
            (reqs[t].pc = "done" /\ deliveries' = deliveries) => reqs'[t] = reqs[t]]_vars
    /\ [][Cardinality({ t \in Slots : \/ reqs'[t].pc # reqs[t].pc
                                      \/ reqs'[t].code # reqs[t].code
                                      \/ reqs'[t].responses # reqs[t].responses }) <= 1]_vars
    /\ [](\A s \in Slots : InFlight(reqs[s]) => ENABLED Completion(s))
    /\ [][\A s \in Slots :
            Completion(s) => Rank(reqs'[s].pc) > Rank(reqs[s].pc)]_vars

\* C17 witness: of two requests that were in flight together, one was
\* answered 500 after its statement failed and the other 200.
C17_Witness ==
    \E s \in Slots, t \in Slots :
        /\ reqs[s].pc = "done" /\ reqs[s].code = 500 /\ reqs[s].concurrent
        /\ reqs[s].event.type = T_REQUIRES_INPUT
        /\ reqs[t].pc = "done" /\ reqs[t].code = 200 /\ reqs[t].concurrent

\* A delivery of a paid checkout event that met no failure of the relay or of
\* the mailer and was answered 200.
CleanPaid3(req) ==
    /\ req.pc = "done" /\ req.code = 200 /\ ~req.redelivered
    /\ req.event.type = T_CHECKOUT /\ req.event.payment_status = "paid"
    /\ req.relay \in {"none", "ok"} /\ req.mail \in {"none", "ok"}

\* C18: of two deliveries of one paid checkout event to the third variant,
\* however their handlers interleave, at most one calls the provisioning
\* endpoint and at most one sends the welcome mail.
C18_FulfilledAtMostOnce ==
    \A s \in Slots, t \in Slots :
        (s # t /\ CleanPaid3(reqs[s]) /\ CleanPaid3(reqs[t])
               /\ reqs[s].event.id = reqs[t].event.id) =>
            /\ reqs[s].provision_calls + reqs[t].provision_calls <= 1
            /\ reqs[s].mail_calls + reqs[t].mail_calls <= 1

\* C19: in the third variant a paid checkout event answered 500 after a
\* fulfilment error is attempted again when it is redelivered: once a
\* redelivery is answered 200, so that the provider stops redelivering, the
\* row of the checkout session is 'fulfilled'.
C19_RedeliveryFulfils ==
    \A s \in Slots :
        (/\ reqs[s].pc = "done" /\ reqs[s].code = 200 /\ reqs[s].redelivered
         /\ reqs[s].event.type = T_CHECKOUT /\ reqs[s].event.payment_status = "paid"
         /\ \A t \in Slots : reqs[t].pending = <<>>) =>
            \E r \in RowsOfCheckout(fulfillments, reqs[s].event.id) : r.status = "fulfilled"

\* C20: a verified event from which no customer email can be resolved is
\* answered with a server error, sends no mail and leaves no row of its
\* session 'fulfilled'.
C20_MissingEmailRejected ==
    (/\ Signed /\ last.event.type = T_VERIFIED
     /\ ~Truthy(last.event.meta_email) /\ ~Truthy(last.event.report_email)) =>
        /\ last.code = 500
        /\ last.mail_calls = 0
        /\ \A r \in RowsOfVerification(fulfillments, last.event.id) : r.status # "fulfilled"

\* C21: within one verified request of the primary handler the provisioning
\* call is issued only by the step in which the 'verified' write completed
\* without error; the 'fulfilled' write is started only when that call
\* returned successfully; the mail is issued only by the step in which the
\* 'fulfilled' write completed without error, the row of the session being
\* 'fulfilled' then; the request is answered 200 only when the mail was sent
\* and succeeded; and a request issues at most one provisioning call.
C21_VerifiedOrdering ==
    /\ [](\A s \in Slots :
            /\ reqs[s].provision_calls <= 1 /\ reqs[s].mail_calls <= 1
            /\ reqs[s].mail_calls <= reqs[s].provision_calls
            /\ reqs[s].pc = "upsert_verified" => reqs[s].provision_calls = 0
            /\ reqs[s].pc = "provision" =>
                  reqs[s].provision_calls = 1 /\ reqs[s].relay = "none"
            /\ reqs[s].pc = "upsert_fulfilled" =>
                  reqs[s].relay = "ok" /\ reqs[s].mail_calls = 0
            /\ reqs[s].pc = "mail" => reqs[s].relay = "ok" /\ reqs[s].mail_calls = 1
            /\ (reqs[s].pc = "done" /\ reqs[s].code = 200
                                    /\ reqs[s].event.type = T_VERIFIED) =>
                  reqs[s].mail_calls = 1 /\ reqs[s].mail = "ok")
    /\ [][\A s \in Slots :
            (reqs'[s].pc = "provision" /\ reqs[s].pc # "provision") =>
                /\ reqs[s].pc = "upsert_verified"
                /\ \E r \in fulfillments' \ fulfillments :
                      /\ r.verification_session_id = reqs[s].event.id
                      /\ r.status = "verified"]_vars
    /\ [][\A s \in Slots :
            (reqs'[s].pc = "upsert_fulfilled" /\ reqs[s].pc # "upsert_fulfilled") =>
                reqs[s].pc = "provision" /\ reqs'[s].relay = "ok"]_vars
    /\ [][\A s \in Slots :
            (reqs'[s].pc = "mail" /\ reqs[s].pc # "mail") =>
                /\ reqs[s].pc = "upsert_fulfilled"
                /\ \E r \in fulfillments' :
                      /\ r.verification_session_id = reqs[s].event.id
                      /\ r.status = "fulfilled"]_vars
    /\ [][\A s \in Slots :
            (/\ reqs'[s].pc = "done" /\ reqs'[s].code = 200
             /\ reqs'[s].event.type = T_VERIFIED /\ reqs[s].pc # "done") =>
                reqs[s].pc = "mail"]_vars

\* C21 witness: a verified request wrote its 'verified' row, then called the
\* relay, which answered, then started the 'fulfilled' write, and has been
\* answered without a mail.
C21_Witness ==
    \E s \in Slots :
        /\ reqs[s].pc = "done" /\ reqs[s].event.type = T_VERIFIED
        /\ reqs[s].provision_calls = 1 /\ reqs[s].relay = "ok"
        /\ reqs[s].mail_calls = 0 /\ reqs[s].code = 500
        /\ \E r \in RowsOfVerification(fulfillments, reqs[s].event.id) : r.status = "verified"

====
